---- MODULE Spec2Model ----
(***************************************************************************)
(* Inline three-way merge conflict resolver of better-hub.                 *)
(*                                                                         *)
(*   - route.ts (GET /api/merge-conflicts): the conflict file              *)
(*     orchestrator, a pure classification of each changed file.           *)
(*   - pr-conflict-resolver.tsx (PRConflictResolver): the resolution       *)
(*     state tracker and the commit handler.                               *)
(*   - lib/three-way-merge and pulls/pr-actions are imported by both files *)
(*     but are not part of the sources at hand; they are modelled from the *)
(*     design document (sections 4.1, 4.2, 4.5, 6).                        *)
(*                                                                         *)
(* Text is a sequence of one-character strings, NL being the newline.  A   *)
(* line is a sequence of characters other than NL, a LineSequence is a     *)
(* sequence of lines.  Indices are 1-based here and 0-based in the code.   *)
(***************************************************************************)
EXTENDS Integers, Sequences, FiniteSets, TLC

NL == "\n"

Max2(x, y) == IF x >= y THEN x ELSE y

MinOf(S) == CHOOSE x \in S : \A y \in S : x <= y

(***************************************************************************)
(* String.prototype.split("\n") and Array.prototype.join("\n").            *)
(***************************************************************************)
\* a plausible slip: the empty string after a last newline is not kept
RECURSIVE SplitDropsTrailingEmpty(_)
SplitDropsTrailingEmpty(s) ==
    IF \A k \in 1..Len(s) : s[k] # NL
    THEN <<s>>
    ELSE LET k == MinOf({j \in 1..Len(s) : s[j] = NL})
         IN  IF k = Len(s) THEN <<SubSeq(s, 1, k - 1)>>
             ELSE <<SubSeq(s, 1, k - 1)>>
                      \o SplitDropsTrailingEmpty(SubSeq(s, k + 1, Len(s)))

RECURSIVE Split(_)
Split(s) ==
    IF \A k \in 1..Len(s) : s[k] # NL
    THEN <<s>>
    ELSE LET k == MinOf({j \in 1..Len(s) : s[j] = NL})
         IN  <<SubSeq(s, 1, k - 1)>> \o Split(SubSeq(s, k + 1, Len(s)))

RECURSIVE Join(_)
Join(lines) ==
    IF lines = <<>> THEN <<>>
    ELSE IF Len(lines) = 1 THEN lines[1]
    ELSE lines[1] \o <<NL>> \o Join(Tail(lines))

RECURSIVE Flatten(_)
Flatten(seqs) ==
    IF seqs = <<>> THEN <<>> ELSE Head(seqs) \o Flatten(Tail(seqs))

(***************************************************************************)
(* Content of a file at one position: text, or null when absent or         *)
(* unreadable (fetchContent returns string | null).                        *)
(***************************************************************************)
NullContent == [isNull |-> TRUE, text |-> <<>>]

Text(t) == [isNull |-> FALSE, text |-> t]

\* (content ?? "")
OrEmpty(c) == IF c.isNull THEN <<>> ELSE c.text

(***************************************************************************)
(* MergeHunk, a tagged variant.                                            *)
(***************************************************************************)
Clean(lines) == [type |-> "clean", resolvedLines |-> lines]

Conflict(b, h) == [type |-> "conflict", baseLines |-> b, headLines |-> h]

\* h.resolvedLines || [], h.baseLines || [], h.headLines || []
HunkLines(h, field) == IF field \in DOMAIN h THEN h[field] ELSE <<>>

(***************************************************************************)
(* Line Differencer (design 4.1): an LCS edit script between a and b.      *)
(***************************************************************************)
LCSTable(a, b) ==
    LET n == Len(a)
        m == Len(b)
        t[i \in 1..(n + 1), j \in 1..(m + 1)] ==
            IF i > n \/ j > m THEN 0
            ELSE IF a[i] = b[j] THEN 1 + t[i + 1, j + 1]
            ELSE Max2(t[i + 1, j], t[i, j + 1])
    IN  t

RECURSIVE DiffFrom(_, _, _, _, _)
DiffFrom(a, b, t, i, j) ==
    IF i > Len(a) /\ j > Len(b) THEN <<>>
    ELSE IF i <= Len(a) /\ j <= Len(b) /\ a[i] = b[j]
    THEN <<[op |-> "keep", ai |-> i, bi |-> j]>> \o DiffFrom(a, b, t, i + 1, j + 1)
    ELSE IF j > Len(b) \/ (i <= Len(a) /\ t[i + 1, j] >= t[i, j + 1])
    THEN <<[op |-> "delete", ai |-> i, bi |-> 0]>> \o DiffFrom(a, b, t, i + 1, j)
    ELSE <<[op |-> "insert", ai |-> 0, bi |-> j]>> \o DiffFrom(a, b, t, i, j + 1)

\* a plausible slip: the walk ends with a, the lines b has left are not inserted
diffStopsAtEndOfA(a, b) ==
    LET script == DiffFrom(a, b, LCSTable(a, b), 1, 1)
        ends == {k \in 0..Len(script) :
                    \A m \in (k + 1)..Len(script) : script[m].op = "insert"}
    IN  SubSeq(script, 1, MinOf(ends))

diff(a, b) == DiffFrom(a, b, LCSTable(a, b), 1, 1)

(***************************************************************************)
(* Three-Way Merge Engine (design 4.2).  Both edit scripts are walked in   *)
(* lockstep over ancestor positions.  An ancestor line kept by both        *)
(* scripts is unchanged by both; the lines between two such lines form a   *)
(* region changed by one side, by both identically, or by both differently.*)
(***************************************************************************)
\* ancestor index -> index of the line it is kept as on the side, 0 if none
KeptAs(script, n) ==
    [i \in 1..n |->
        IF \E k \in 1..Len(script) : script[k].op = "keep" /\ script[k].ai = i
        THEN script[CHOOSE k \in 1..Len(script) :
                        script[k].op = "keep" /\ script[k].ai = i].bi
        ELSE 0]

\* a plausible slip: two sides making the same change are taken to conflict
RegionWithoutConvergence(a, b, h) ==
    IF b = a THEN Clean(h)
    ELSE IF h = a THEN Clean(b)
    ELSE Conflict(b, h)

Region(a, b, h) ==
    IF b = a THEN Clean(h)
    ELSE IF h = a THEN Clean(b)
    ELSE IF b = h THEN Clean(b)
    ELSE Conflict(b, h)

\* adjacent Clean hunks are coalesced; Conflict hunks are never merged
RECURSIVE Coalesce(_)
Coalesce(hs) ==
    IF Len(hs) <= 1 THEN hs
    ELSE IF hs[1].type = "clean" /\ hs[2].type = "clean"
    THEN Coalesce(<<Clean(hs[1].resolvedLines \o hs[2].resolvedLines)>>
                    \o SubSeq(hs, 3, Len(hs)))
    ELSE <<hs[1]>> \o Coalesce(Tail(hs))

MergeHunks(anc, base, head) ==
    LET mb == KeptAs(diff(anc, base), Len(anc))
        mh == KeptAs(diff(anc, head), Len(anc))
        RECURSIVE Walk(_, _, _)
        Walk(ia, ib, ih) ==
            IF ia > Len(anc) /\ ib > Len(base) /\ ih > Len(head) THEN <<>>
            ELSE LET S  == {s \in ia..Len(anc) : mb[s] # 0 /\ mh[s] # 0}
                     s  == IF S = {} THEN Len(anc) + 1 ELSE MinOf(S)
                     sb == IF S = {} THEN Len(base) + 1 ELSE mb[s]
                     sh == IF S = {} THEN Len(head) + 1 ELSE mh[s]
                 IN  IF s = ia /\ sb = ib /\ sh = ih
                     THEN <<Clean(<<anc[ia]>>)>> \o Walk(ia + 1, ib + 1, ih + 1)
                     ELSE <<Region(SubSeq(anc, ia, s - 1),
                                   SubSeq(base, ib, sb - 1),
                                   SubSeq(head, ih, sh - 1))>>
                          \o Walk(s, sb, sh)
    IN  Coalesce(Walk(1, 1, 1))

HasConflictHunk(hunks) == \E k \in 1..Len(hunks) : hunks[k].type = "conflict"

threeWayMerge(anc, base, head) ==
    LET hunks == MergeHunks(anc, base, head)
    IN  [hunks |-> hunks, hasConflicts |-> HasConflictHunk(hunks)]

(***************************************************************************)
(* Conflict File Orchestrator: the per-file classification of GET.         *)
(* A changed file carries its content at the merge base, at the base       *)
(* commit and at the head commit, as fetchContent returns them.            *)
(***************************************************************************)
MAX_FILES == 30

ChangedFile(name, anc, base, head) ==
    [filename |-> name, ancestor |-> anc, base |-> base, head |-> head]

Report(path, hunks, hasConflicts, autoResolved) ==
    [path |-> path, hunks |-> hunks,
     hasConflicts |-> hasConflicts, autoResolved |-> autoResolved]

\* a plausible slip: the negation of hasConflicts is left out
MergedReportSameFlags(filePath, result) ==
    Report(filePath, result.hunks, result.hasConflicts, result.hasConflicts)

\* the report built from the merge engine's result
MergedReport(filePath, result) ==
    Report(filePath, result.hunks, result.hasConflicts, ~result.hasConflicts)

\* a plausible slip: the return for a file absent on base and head is left out
ClassifyReturnWithoutNeither(file) ==
    LET ancestorContent == file.ancestor
        baseContent     == file.base
        headContent     == file.head
        baseChanged == baseContent # ancestorContent
        headChanged == headContent # ancestorContent
    IN  IF ancestorContent.isNull /\ baseContent.isNull /\ ~headContent.isNull
        THEN "headOnly"
        ELSE IF ancestorContent.isNull /\ headContent.isNull /\ ~baseContent.isNull
        THEN "baseOnly"
        ELSE IF baseChanged /\ ~headChanged
        THEN "baseChanged"
        ELSE IF headChanged /\ ~baseChanged
        THEN "headChanged"
        ELSE IF ~baseChanged /\ ~headChanged
        THEN "unchanged"
        ELSE "threeWayMerge"

\* a plausible slip: the side that did not change is the one adopted
ClassifyReturnSidesSwapped(file) ==
    LET ancestorContent == file.ancestor
        baseContent     == file.base
        headContent     == file.head
        baseChanged == baseContent # ancestorContent
        headChanged == headContent # ancestorContent
    IN  IF ancestorContent.isNull /\ baseContent.isNull /\ ~headContent.isNull
        THEN "headOnly"
        ELSE IF ancestorContent.isNull /\ headContent.isNull /\ ~baseContent.isNull
        THEN "baseOnly"
        ELSE IF baseContent.isNull /\ headContent.isNull
        THEN "neither"
        ELSE IF baseChanged /\ ~headChanged
        THEN "headChanged"
        ELSE IF headChanged /\ ~baseChanged
        THEN "baseChanged"
        ELSE IF ~baseChanged /\ ~headChanged
        THEN "unchanged"
        ELSE "threeWayMerge"

\* which return of the per-file function the file leaves by
ClassifyReturn(file) ==
    LET ancestorContent == file.ancestor
        baseContent     == file.base
        headContent     == file.head
        baseChanged == baseContent # ancestorContent
        headChanged == headContent # ancestorContent
    IN  IF ancestorContent.isNull /\ baseContent.isNull /\ ~headContent.isNull
        THEN "headOnly"
        ELSE IF ancestorContent.isNull /\ headContent.isNull /\ ~baseContent.isNull
        THEN "baseOnly"
        ELSE IF baseContent.isNull /\ headContent.isNull
        THEN "neither"
        ELSE IF baseChanged /\ ~headChanged
        THEN "baseChanged"
        ELSE IF headChanged /\ ~baseChanged
        THEN "headChanged"
        ELSE IF ~baseChanged /\ ~headChanged
        THEN "unchanged"
        ELSE "threeWayMerge"

ClassifyFile(file) ==
    LET filePath        == file.filename
        ancestorContent == file.ancestor
        baseContent     == file.base
        headContent     == file.head
        ancestor  == Split(OrEmpty(ancestorContent))
        baseLines == Split(OrEmpty(baseContent))
        headLines == Split(OrEmpty(headContent))
        result == threeWayMerge(ancestor, baseLines, headLines)
        return == ClassifyReturn(file)
    IN  CASE return = "headOnly" ->
                Report(filePath, <<Clean(Split(headContent.text))>>, FALSE, TRUE)
          [] return = "baseOnly" ->
                Report(filePath, <<Clean(Split(baseContent.text))>>, FALSE, TRUE)
          [] return = "neither" ->
                Report(filePath, <<>>, FALSE, TRUE)
          [] return = "baseChanged" ->
                Report(filePath, <<Clean(baseLines)>>, FALSE, TRUE)
          [] return = "headChanged" ->
                Report(filePath, <<Clean(headLines)>>, FALSE, TRUE)
          [] return = "unchanged" ->
                Report(filePath, <<Clean(ancestor)>>, FALSE, TRUE)
          [] return = "threeWayMerge" ->
                MergedReport(filePath, result)

\* (comparison.files || []).slice(0, MAX_FILES)
\* a plausible slip: the list of changed files is taken whole
DiffFilesUncapped(comparisonFiles) == comparisonFiles

DiffFiles(comparisonFiles) ==
    SubSeq(comparisonFiles, 1,
           IF Len(comparisonFiles) < MAX_FILES THEN Len(comparisonFiles) ELSE MAX_FILES)

\* the files of the session GET answers with, in the order of diffFiles
SessionFiles(comparisonFiles) ==
    LET diffFiles == DiffFiles(comparisonFiles)
    IN  [i \in 1..Len(diffFiles) |-> ClassifyFile(diffFiles[i])]

(***************************************************************************)
(* The remote as one request sees it: the answer of compareCommits (the    *)
(* changed files, each with its content at the three commits, or an error  *)
(* thrown) and the content reads that fail.                                *)
(***************************************************************************)
Positions == {"ancestor", "base", "head"}

CompareOk(files) ==
    [ok |-> TRUE, hasStatus |-> FALSE, status |-> 0, message |-> "", files |-> files]

\* the error compareCommits throws; hasStatus: it has a numeric status property
CompareError(hasStatus, status, message) ==
    [ok |-> FALSE, hasStatus |-> hasStatus, status |-> status,
     message |-> message, files |-> <<>>]

Remote(compare, unreadable) == [compare |-> compare, unreadable |-> unreadable]

\* a plausible slip: a read that fails hands back the empty string
fetchContentFailedAsEmpty(r, i, pos) ==
    IF <<i, pos>> \in r.unreadable THEN Text(<<>>) ELSE r.compare.files[i][pos]

\* fetchContent of file i at a position: null when the read fails or there is
\* no file there
fetchContent(r, i, pos) ==
    IF <<i, pos>> \in r.unreadable THEN NullContent ELSE r.compare.files[i][pos]

\* getErrorMessage of lib/utils: the message of the error thrown
getErrorMessage(e) == e.message

NotFoundMessage == "Could not compare branches. The branch may not exist or you may not have access. If this is a fork PR, ensure the head branch is accessible."

ErrorResponse(error, status) ==
    [ok |-> FALSE, status |-> status, error |-> error, files |-> <<>>]

\* NextResponse.json({mergeBaseSha, baseBranch, headBranch, files})
SessionResponse(files) ==
    [ok |-> TRUE, status |-> 200, error |-> "", mergeBaseSha |-> "mergeBase",
     baseBranch |-> "base", headBranch |-> "head", files |-> files]

\* the catch block of GET
CatchResponse(e) ==
    LET msg == IF getErrorMessage(e) # "" THEN getErrorMessage(e)
               ELSE "Failed to compute merge conflicts"
        status == IF e.hasStatus THEN e.status ELSE 500
    IN  IF status = 404 THEN ErrorResponse(NotFoundMessage, 404)
        ELSE ErrorResponse(msg, status)

\* the three contents of file i of diffFiles as the fetches hand them back
FetchedFile(r, i) ==
    ChangedFile(r.compare.files[i].filename,
                fetchContent(r, i, "ancestor"),
                fetchContent(r, i, "base"),
                fetchContent(r, i, "head"))

\* GET as a function of what the remote answers
GET(r) ==
    IF ~r.compare.ok THEN CatchResponse(r.compare)
    ELSE LET diffFiles == DiffFiles(r.compare.files)
         IN  SessionResponse([i \in 1..Len(diffFiles) |-> ClassifyFile(FetchedFile(r, i))])

(***************************************************************************)
(* Inputs.  Comparisons are the changed-file lists the resolver is opened  *)
(* on; EditTexts are the texts a reviewer types into the edit box and      *)
(* Messages the texts typed into the commit message input.                 *)
(***************************************************************************)
Lines3(a, b, c) == Text(<<a, NL, b, NL, c>>)

\* base and head change the same line differently
OneConflict(name) ==
    ChangedFile(name, Lines3("a", "b", "c"), Lines3("a", "X", "c"), Lines3("a", "Y", "c"))

\* base and head change two separate lines differently
TwoConflicts(name) ==
    ChangedFile(name, Lines3("p", "m", "q"), Lines3("X", "m", "Z"), Lines3("Y", "m", "W"))

\* the file exists on head only
HeadOnly(name) == ChangedFile(name, NullContent, NullContent, Text(<<"a", NL>>))

\* base and head make the same change
SameChange(name) ==
    ChangedFile(name, Lines3("a", "b", "c"), Lines3("a", "X", "c"), Lines3("a", "X", "c"))

\* contents a single changed file is given at each of its three positions
Contents ==
    { NullContent, Text(<<>>), Text(<<"a">>), Text(<<"a", NL, "b">>),
      Text(<<"X", NL, "b">>), Text(<<"a", NL, "Y">>) }

SingleFileComparisons ==
    { <<ChangedFile("f1", a, b, h)>> : a \in Contents, b \in Contents, h \in Contents }

\* texts with and without newlines at their ends
RoundTripTexts ==
    { <<>>, <<"a">>, <<"a", NL>>, <<NL, "a">>, <<"a", NL, NL, "b", NL, NL>> }

\* a file in conflict next to a file one side of which changed to text t
RoundTripComparisons ==
    { <<OneConflict("f1"), ChangedFile("f2", Text(<<"o">>), Text(<<"o">>), Text(t))>> :
        t \in RoundTripTexts }
    \cup { <<OneConflict("f1"), ChangedFile("f2", Text(<<"o">>), Text(t), Text(<<"o">>))>> :
             t \in {<<"a", NL>>, <<NL>>} }
    \cup { <<OneConflict("f1"), ChangedFile("f2", Text(<<"o", NL>>), NullContent, Text(<<"o", NL>>))>> }

Comparisons ==
    { <<>>,
      <<OneConflict("f1")>>,
      <<TwoConflicts("f1")>>,
      <<HeadOnly("f1"), SameChange("f2")>>,
      <<TwoConflicts("f1"), HeadOnly("f2")>>,
      <<OneConflict("f1"), TwoConflicts("f2")>> }
    \cup SingleFileComparisons
    \cup RoundTripComparisons

EditTexts == { <<>>, <<"Q", NL>> }

DefaultMessage == <<"M">>

Messages == { <<>>, <<" ">> }

\* String.prototype.trim
RECURSIVE TrimLeft(_)
TrimLeft(s) ==
    IF s # <<>> /\ Head(s) \in {" ", NL} THEN TrimLeft(Tail(s)) ELSE s

RECURSIVE TrimRight(_)
TrimRight(s) ==
    IF s # <<>> /\ s[Len(s)] \in {" ", NL}
    THEN TrimRight(SubSeq(s, 1, Len(s) - 1)) ELSE s

Trim(s) == TrimRight(TrimLeft(s))

\* number of commit calls and of foreign pushes to the target branch explored
MaxAttempts == 2

MaxMoves == 1

(***************************************************************************)
(* State of PRConflictResolver, of the remote branch and of the commit     *)
(* calls in flight.                                                        *)
(***************************************************************************)
VARIABLES
    loading,        \* useState(true)
    error,          \* useState<string | null>(null); "" is null
    data,           \* useState<MergeConflictsResponse | null>(null)
    resolutions,    \* useState<Map<string, FileResolution>>(new Map())
    activeFile,     \* useState<string | null>(null); "" is null
    activeHunkIdx,  \* useState(0), held 1-based
    commitMessage,  \* useState("")
    commitResult,   \* useState<{type, message} | null>(null); type "" is null
    calls,          \* the commitMergeConflictResolution calls, by number
    targetTip,      \* commit the target branch ref of the remote points at
    tipAtCompare,   \* tip of that branch as compareCommits read it
    moves,          \* foreign pushes to the target branch so far
    remote,         \* what the remote answers the GET request in hand with
    get,            \* the GET request in hand: its position, the content
                    \* fetches outstanding, the files done in order of
                    \* completion, and the response once sent
    fetches,        \* the runs of the fetchData effect: the number of the
                    \* latest, those awaiting their response, and the one
                    \* whose response data holds (0: none)
    engine,         \* the line differencer's last call: a, b and the script
    pin,            \* status of the RepoSystemPin row of one key, or "none"
    pinCalls,       \* the activateSystemPin / clearSystemPin calls on that key
    lastOp          \* the resolution or commit handler of the component that
                    \* ran last, with its arguments

vars == <<loading, error, data, resolutions, activeFile, activeHunkIdx,
          commitMessage, commitResult, calls, targetTip, tipAtCompare,
          moves, remote, get, fetches, engine, pin, pinCalls, lastOp>>

NoData == [isNull |-> TRUE, files |-> <<>>]

NoCommit == <<"none", 0>>

NoCall == [pc |-> "none", tip |-> NoCommit, made |-> {}, result |-> "none"]

NoResponse == [ok |-> FALSE, status |-> 0, error |-> "", files |-> <<>>]

NoRemote == Remote(CompareOk(<<>>), {})

IdleGet == [pc |-> "idle", pending |-> {}, finished |-> <<>>, response |-> NoResponse]

\* the effect has run once, at mount, and awaits its response
FirstFetch == [latest |-> 1, inflight |-> {1}, shown |-> 0]

NoDiff == [called |-> FALSE, a |-> <<>>, b |-> <<>>, script |-> <<>>]

\* a call not made yet; existing: the status of the row getSystemPin read,
\* "none" for null; transitioned: the value returned ("true", "false"), or
\* "threw" when the call rejects
NoPinCall == [op |-> "none", pc |-> "idle", existing |-> "none", transitioned |-> "none"]

\* number of activateSystemPin / clearSystemPin calls explored on one key
MaxPinCalls == 2

Op(name, path, idx, lines) ==
    [op |-> name, path |-> path, idx |-> idx, lines |-> lines]

Init ==
    /\ loading = TRUE
    /\ error = ""
    /\ data = NoData
    /\ resolutions = <<>>
    /\ activeFile = ""
    /\ activeHunkIdx = 1
    /\ commitMessage = <<>>
    /\ commitResult = [type |-> "", message |-> ""]
    /\ calls = [k \in 1..MaxAttempts |-> NoCall]
    /\ targetTip = <<"ext", 0>>
    /\ tipAtCompare = NoCommit
    /\ moves = 0
    /\ remote = NoRemote
    /\ get = IdleGet
    /\ fetches = FirstFetch
    /\ engine = NoDiff
    /\ pin = "none"
    /\ pinCalls = [k \in 1..MaxPinCalls |-> NoPinCall]
    /\ lastOp = Op("init", "", 0, <<>>)

(***************************************************************************)
(* fetchData: the session is stored and the resolutions are initialised.   *)
(***************************************************************************)
Paths(files) == {files[i].path : i \in 1..Len(files)}

\* data.files.find((f) => f.path === path)
FindFile(files, path) ==
    files[MinOf({i \in 1..Len(files) : files[i].path = path})]

\* a plausible slip: a Conflict hunk starts out holding base's lines
InitHunkResolutionPrefilled(file, h) ==
    [status |-> IF h.type = "clean" THEN "accepted-base" ELSE "pending",
     resolvedLines |-> IF h.type = "clean"
                       THEN HunkLines(h, "resolvedLines")
                       ELSE HunkLines(h, "baseLines")]

InitHunkResolution(file, h) ==
    IF file.autoResolved
    THEN [status |-> IF h.type = "clean" THEN "accepted-base" ELSE "pending",
          resolvedLines |-> HunkLines(h, "resolvedLines")]
    ELSE [status |-> IF h.type = "clean" THEN "accepted-base" ELSE "pending",
          resolvedLines |-> IF h.type = "clean"
                            THEN HunkLines(h, "resolvedLines") ELSE <<>>]

InitFileResolution(file) ==
    [status |-> IF file.autoResolved THEN "auto-resolved" ELSE "pending",
     hunkResolutions |->
        [k \in 1..Len(file.hunks) |-> InitHunkResolution(file, file.hunks[k])]]

InitResolutions(files) ==
    [p \in Paths(files) |-> InitFileResolution(FindFile(files, p))]

\* firstConflictFile || json.files[0]?.path || null
FirstActiveFile(files) ==
    LET C == {i \in 1..Len(files) : ~files[i].autoResolved}
    IN  IF C # {} THEN files[MinOf(C)].path
        ELSE IF Len(files) > 0 THEN files[1].path ELSE ""

\* the state no part of the resolver or of GET touches
UnchangedElsewhere == UNCHANGED <<engine, pin, pinCalls>>

\* the response to run k of the effect arrives with the session of comparison
\* c: setData, setResolutions, setActiveFile, setCommitMessage, setLoading(false)
FetchDataArrives(k, c) ==
    /\ k \in fetches.inflight
    /\ fetches' = [fetches EXCEPT !.inflight = @ \ {k}, !.shown = k]
    /\ LET files == SessionFiles(c)
       IN  /\ data' = [isNull |-> FALSE, files |-> files]
           /\ resolutions' = InitResolutions(files)
           /\ activeFile' = FirstActiveFile(files)
    /\ commitMessage' = DefaultMessage
    /\ loading' = FALSE
    /\ tipAtCompare' = targetTip
    /\ remote' = Remote(CompareOk(c), {})
    /\ lastOp' = Op("fetchData", "", 0, <<>>)
    /\ UNCHANGED <<error, activeHunkIdx, commitResult, calls, targetTip, moves, get>>
    /\ UnchangedElsewhere

\* run k of the effect ends in its catch: setError, setLoading(false)
FetchDataFails(k) ==
    /\ k \in fetches.inflight
    /\ fetches' = [fetches EXCEPT !.inflight = @ \ {k}]
    /\ error' = "Failed to load conflicts"
    /\ loading' = FALSE
    /\ lastOp' = Op("fetchData", "", 0, <<>>)
    /\ UNCHANGED <<data, resolutions, activeFile, activeHunkIdx, commitMessage,
                   commitResult, calls, targetTip, tipAtCompare, moves, remote, get>>
    /\ UnchangedElsewhere

\* the response to the run of the effect started at mount
FetchDataOk(c) ==
    /\ loading
    /\ FetchDataArrives(1, c)

FetchDataError ==
    /\ loading
    /\ FetchDataFails(1)

(***************************************************************************)
(* Resolution helpers: each returns the next resolutions map.              *)
(***************************************************************************)
\* a plausible slip: hunks.some in place of hunks.every
UpdateHunkResolutionSome(prev, filePath, hunkIdx, status, lines) ==
    LET fileRes    == prev[filePath]
        hunks      == [fileRes.hunkResolutions EXCEPT
                          ![hunkIdx] = [status |-> status, resolvedLines |-> lines]]
        someResolved == \E k \in 1..Len(hunks) : hunks[k].status # "pending"
    IN  [prev EXCEPT ![filePath] =
            [status |-> IF someResolved THEN "resolved" ELSE "pending",
             hunkResolutions |-> hunks]]

\* a plausible slip: giving a hunk the status it already has undoes it
UpdateHunkResolutionToggle(prev, filePath, hunkIdx, status, lines) ==
    LET fileRes    == prev[filePath]
        old        == fileRes.hunkResolutions[hunkIdx]
        new        == IF old.status = status
                      THEN [status |-> "pending", resolvedLines |-> <<>>]
                      ELSE [status |-> status, resolvedLines |-> lines]
        hunks      == [fileRes.hunkResolutions EXCEPT ![hunkIdx] = new]
        everyResolved == \A k \in 1..Len(hunks) : hunks[k].status # "pending"
    IN  [prev EXCEPT ![filePath] =
            [status |-> IF everyResolved THEN "resolved" ELSE "pending",
             hunkResolutions |-> hunks]]

\* a plausible slip: the resolution is given to every hunk of the file
UpdateHunkResolutionWholeFile(prev, filePath, hunkIdx, status, lines) ==
    LET fileRes    == prev[filePath]
        hunks      == [k \in 1..Len(fileRes.hunkResolutions) |->
                          [status |-> status, resolvedLines |-> lines]]
    IN  [prev EXCEPT ![filePath] =
            [status |-> "resolved", hunkResolutions |-> hunks]]

\* a plausible slip: the resolution is pushed onto the array
UpdateHunkResolutionAppends(prev, filePath, hunkIdx, status, lines) ==
    LET fileRes    == prev[filePath]
        hunks      == Append(fileRes.hunkResolutions,
                             [status |-> status, resolvedLines |-> lines])
        everyResolved == \A k \in 1..Len(hunks) : hunks[k].status # "pending"
    IN  [prev EXCEPT ![filePath] =
            [status |-> IF everyResolved THEN "resolved" ELSE "pending",
             hunkResolutions |-> hunks]]

UpdateHunkResolution(prev, filePath, hunkIdx, status, lines) ==
    LET fileRes    == prev[filePath]
        hunks      == [fileRes.hunkResolutions EXCEPT
                          ![hunkIdx] = [status |-> status, resolvedLines |-> lines]]
        everyResolved == \A k \in 1..Len(hunks) : hunks[k].status # "pending"
    IN  [prev EXCEPT ![filePath] =
            [status |-> IF everyResolved THEN "resolved" ELSE "pending",
             hunkResolutions |-> hunks]]

acceptBase(prev, filePath, hunkIdx, baseLines) ==
    UpdateHunkResolution(prev, filePath, hunkIdx, "accepted-base", baseLines)

acceptHead(prev, filePath, hunkIdx, headLines) ==
    UpdateHunkResolution(prev, filePath, hunkIdx, "accepted-head", headLines)

\* a plausible slip: head's lines are put before base's
acceptBothHeadFirst(prev, filePath, hunkIdx, baseLines, headLines) ==
    UpdateHunkResolution(prev, filePath, hunkIdx, "accepted-both",
                         headLines \o baseLines)

acceptBoth(prev, filePath, hunkIdx, baseLines, headLines) ==
    UpdateHunkResolution(prev, filePath, hunkIdx, "accepted-both",
                         baseLines \o headLines)

\* a plausible slip: a bulk accept calls the accept on every hunk
BulkTouchesAll(h, hr) == TRUE

\* whether file.hunks.forEach of a bulk accept calls the accept on hunk h
BulkTouches(h, hr) == h.type = "conflict"

\* file.hunks.forEach from hunk idx on, the queued updaters applied in order
RECURSIVE AcceptAllFrom(_, _, _, _)
AcceptAllFrom(prev, file, idx, side) ==
    IF idx > Len(file.hunks) THEN prev
    ELSE LET h == file.hunks[idx]
             next == IF BulkTouches(h, prev[file.path].hunkResolutions[idx])
                     THEN IF side = "base"
                          THEN acceptBase(prev, file.path, idx, HunkLines(h, "baseLines"))
                          ELSE acceptHead(prev, file.path, idx, HunkLines(h, "headLines"))
                     ELSE prev
         IN  AcceptAllFrom(next, file, idx + 1, side)

acceptAllBase(prev, files, filePath) ==
    IF filePath \notin Paths(files) THEN prev
    ELSE AcceptAllFrom(prev, FindFile(files, filePath), 1, "base")

acceptAllHead(prev, files, filePath) ==
    IF filePath \notin Paths(files) THEN prev
    ELSE AcceptAllFrom(prev, FindFile(files, filePath), 1, "head")

(***************************************************************************)
(* Computed state of a render.                                             *)
(***************************************************************************)
conflictFiles == SelectSeq(data.files, LAMBDA f : ~f.autoResolved)

autoFiles == SelectSeq(data.files, LAMBDA f : f.autoResolved)

totalConflictFiles == Len(conflictFiles)

\* resolutions.get(f.path)?.status === "resolved"
IsResolvedFile(f) ==
    f.path \in DOMAIN resolutions /\ resolutions[f.path].status = "resolved"

resolvedCount == Len(SelectSeq(conflictFiles, IsResolvedFile))

\* a plausible slip: one resolved conflict file is taken for all of them
allResolvedSome == totalConflictFiles > 0 /\ resolvedCount > 0

allResolved == totalConflictFiles > 0 /\ resolvedCount = totalConflictFiles

HasActiveFileData == activeFile # "" /\ activeFile \in Paths(data.files)

activeFileData == FindFile(data.files, activeFile)

HasActiveFileRes == activeFile # "" /\ activeFile \in DOMAIN resolutions

activeFileRes == resolutions[activeFile]

conflictHunkIndices ==
    IF HasActiveFileData
    THEN SelectSeq([i \in 1..Len(activeFileData.hunks) |-> i],
                   LAMBDA i : activeFileData.hunks[i].type = "conflict")
    ELSE <<>>

\* 1-based Array.prototype.indexOf, 0 when absent
IndexOf(seq, v) ==
    IF \E k \in 1..Len(seq) : seq[k] = v
    THEN MinOf({k \in 1..Len(seq) : seq[k] = v}) ELSE 0

\* conflictFiles.findIndex((f) => f.path === activeFile), 1-based, 0 when absent
ActiveConflictFilePos ==
    IF \E k \in 1..Len(conflictFiles) : conflictFiles[k].path = activeFile
    THEN MinOf({k \in 1..Len(conflictFiles) : conflictFiles[k].path = activeFile})
    ELSE 0

\* the resolver is rendered, not the loading, error or "No conflicts found" view
Rendered == ~loading /\ error = "" /\ ~data.isNull /\ Len(data.files) > 0

\* the inline viewer of the active file is rendered
ViewerShown == Rendered /\ HasActiveFileData /\ HasActiveFileRes

\* the keydown handler passes its guard on activeFile, its data and resolution
KeyGuard == HasActiveFileData /\ HasActiveFileRes

\* InlineConflictBlock of hunk i of the active file is mounted
BlockShown(i) ==
    /\ ViewerShown
    /\ i \in 1..Len(activeFileData.hunks)
    /\ activeFileData.hunks[i].type = "conflict"

\* the block of a pending hunk offers the three accept buttons
AcceptButtonsShown(i) ==
    BlockShown(i) /\ activeFileRes.hunkResolutions[i].status = "pending"

\* "Edit manually" on a pending block, "Edit" on a resolved one, then "Apply"
EditOffered(i) == BlockShown(i)

\* the "Accept all base" / "Accept all head" buttons of the file header
BulkButtonsShown ==
    ViewerShown /\ activeFileData.hasConflicts
                /\ activeFileRes.status # "auto-resolved"

UnchangedCommit == UNCHANGED <<commitMessage, commitResult, calls, targetTip,
                               tipAtCompare, moves>>

UnchangedSession ==
    UNCHANGED <<loading, error, data, remote, get, fetches, engine, pin, pinCalls>>

(***************************************************************************)
(* Per-hunk operations: the buttons of a conflict block and keys 1, 2, 3.  *)
(***************************************************************************)
Resolve(i, name, next, lines) ==
    /\ resolutions' = next
    /\ lastOp' = Op(name, activeFile, i, lines)
    /\ UNCHANGED <<activeFile, activeHunkIdx>>
    /\ UnchangedSession
    /\ UnchangedCommit

ClickAcceptBase(i) ==
    /\ AcceptButtonsShown(i)
    /\ LET baseLines == HunkLines(activeFileData.hunks[i], "baseLines")
       IN  Resolve(i, "acceptBase",
                   acceptBase(resolutions, activeFileData.path, i, baseLines), <<>>)

ClickAcceptHead(i) ==
    /\ AcceptButtonsShown(i)
    /\ LET headLines == HunkLines(activeFileData.hunks[i], "headLines")
       IN  Resolve(i, "acceptHead",
                   acceptHead(resolutions, activeFileData.path, i, headLines), <<>>)

ClickAcceptBoth(i) ==
    /\ AcceptButtonsShown(i)
    /\ LET baseLines == HunkLines(activeFileData.hunks[i], "baseLines")
           headLines == HunkLines(activeFileData.hunks[i], "headLines")
       IN  Resolve(i, "acceptBoth",
                   acceptBoth(resolutions, activeFileData.path, i, baseLines, headLines),
                   <<>>)

\* Apply of the edit box: onCustom(hunkIdx, editText.split("\n"))
ApplyCustom(i, editText) ==
    /\ EditOffered(i)
    /\ LET lines == Split(editText)
       IN  Resolve(i, "setCustom",
                   UpdateHunkResolution(resolutions, activeFileData.path, i,
                                        "custom", lines),
                   lines)

KeyAccept(key) ==
    /\ KeyGuard
    /\ IndexOf(conflictHunkIndices, activeHunkIdx) # 0
    /\ LET hunk == activeFileData.hunks[activeHunkIdx]
           baseLines == HunkLines(hunk, "baseLines")
           headLines == HunkLines(hunk, "headLines")
       IN  /\ hunk.type = "conflict"
           /\ CASE key = "1" ->
                     Resolve(activeHunkIdx, "acceptBase",
                             acceptBase(resolutions, activeFile, activeHunkIdx, baseLines),
                             <<>>)
                [] key = "2" ->
                     Resolve(activeHunkIdx, "acceptHead",
                             acceptHead(resolutions, activeFile, activeHunkIdx, headLines),
                             <<>>)
                [] key = "3" ->
                     Resolve(activeHunkIdx, "acceptBoth",
                             acceptBoth(resolutions, activeFile, activeHunkIdx,
                                        baseLines, headLines),
                             <<>>)

(***************************************************************************)
(* Bulk operations of the file header.                                     *)
(***************************************************************************)
ClickAcceptAllBase ==
    /\ BulkButtonsShown
    /\ ~data.isNull
    /\ resolutions' = acceptAllBase(resolutions, data.files, activeFile)
    /\ lastOp' = Op("acceptAllBase", activeFile, 0, <<>>)
    /\ UNCHANGED <<activeFile, activeHunkIdx>>
    /\ UnchangedSession
    /\ UnchangedCommit

ClickAcceptAllHead ==
    /\ BulkButtonsShown
    /\ ~data.isNull
    /\ resolutions' = acceptAllHead(resolutions, data.files, activeFile)
    /\ lastOp' = Op("acceptAllHead", activeFile, 0, <<>>)
    /\ UNCHANGED <<activeFile, activeHunkIdx>>
    /\ UnchangedSession
    /\ UnchangedCommit

(***************************************************************************)
(* Navigation: sidebar buttons and keys j, k, ], [.                        *)
(***************************************************************************)
Navigate(file, idx) ==
    /\ activeFile' = file
    /\ activeHunkIdx' = idx
    /\ UNCHANGED <<resolutions, lastOp>>
    /\ UnchangedSession
    /\ UnchangedCommit

SelectFile(path) ==
    /\ Rendered
    /\ path \in Paths(data.files)
    /\ Navigate(path, 1)

KeyNextHunk ==
    /\ KeyGuard
    /\ LET curConflictPos == IndexOf(conflictHunkIndices, activeHunkIdx)
       IN  /\ curConflictPos < Len(conflictHunkIndices)
           /\ Navigate(activeFile, conflictHunkIndices[curConflictPos + 1])

KeyPrevHunk ==
    /\ KeyGuard
    /\ LET curConflictPos == IndexOf(conflictHunkIndices, activeHunkIdx)
       IN  /\ curConflictPos > 1
           /\ Navigate(activeFile, conflictHunkIndices[curConflictPos - 1])

KeyNextFile ==
    /\ KeyGuard
    /\ ActiveConflictFilePos < Len(conflictFiles)
    /\ Navigate(conflictFiles[ActiveConflictFilePos + 1].path, 1)

KeyPrevFile ==
    /\ KeyGuard
    /\ ActiveConflictFilePos > 1
    /\ Navigate(conflictFiles[ActiveConflictFilePos - 1].path, 1)

(***************************************************************************)
(* Commit bar: the message input, the commit button and Ctrl/Cmd+Enter.    *)
(***************************************************************************)
\* useTransition's isPending: a transition started by handleCommit is running
isPending == \E k \in DOMAIN calls : calls[k].pc \notin {"none", "returned"}

\* the numbers not yet given to a commitMergeConflictResolution call
FreeCalls == {k \in DOMAIN calls : calls[k].pc = "none"}

SetCommitMessage(m) ==
    /\ Rendered
    /\ allResolved
    /\ commitMessage # m
    /\ commitMessage' = m
    /\ UNCHANGED <<lastOp, resolutions, activeFile, activeHunkIdx, commitResult, calls,
                   targetTip, tipAtCompare, moves>>
    /\ UnchangedSession

\* handleCommit: returns at once without data or when not allResolved, else
\* starts the transition that calls commitMergeConflictResolution
HandleCommitAccepts == ~data.isNull /\ allResolved

\* a plausible slip: only the lines of hunks the reviewer resolved are taken
resolvedFilesConflictsOnly ==
    LET withRes == SelectSeq(data.files, LAMBDA f : f.path \in DOMAIN resolutions)
    IN  [n \in 1..Len(withRes) |->
            LET hrs == resolutions[withRes[n].path].hunkResolutions
                allLines == Flatten([i \in 1..Len(hrs) |->
                                IF withRes[n].hunks[i].type = "conflict"
                                THEN hrs[i].resolvedLines ELSE <<>>])
            IN  [path |-> withRes[n].path, content |-> Join(allLines)]]

\* the resolvedFiles handleCommit passes to the call: per session file that has
\* a resolution, the resolvedLines of its hunk resolutions in order, joined
resolvedFiles ==
    LET withRes == SelectSeq(data.files, LAMBDA f : f.path \in DOMAIN resolutions)
    IN  [n \in 1..Len(withRes) |->
            LET hrs == resolutions[withRes[n].path].hunkResolutions
                allLines == Flatten([i \in 1..Len(hrs) |-> hrs[i].resolvedLines])
            IN  [path |-> withRes[n].path, content |-> Join(allLines)]]

\* lastOp holds the resolvedFiles the call is given
handleCommit(how) ==
    /\ lastOp' = Op(how, "", 0, IF HandleCommitAccepts THEN resolvedFiles ELSE <<>>)
    /\ IF HandleCommitAccepts
       THEN /\ FreeCalls # {}
            /\ calls' = [calls EXCEPT ![MinOf(FreeCalls)].pc = "called"]
       ELSE UNCHANGED calls
    /\ UNCHANGED <<resolutions, activeFile, activeHunkIdx, commitMessage,
                   commitResult, targetTip, tipAtCompare, moves>>
    /\ UnchangedSession

\* disabled={!allResolved || isPending || !commitMessage.trim()}
CommitButtonEnabled ==
    Rendered /\ allResolved /\ ~isPending /\ Trim(commitMessage) # <<>>

ClickCommit ==
    /\ CommitButtonEnabled
    /\ handleCommit("clickCommit")

\* (e.metaKey || e.ctrlKey) && e.key === "Enter" && allResolved; with a file
\* still pending the key press ends in the handler, nothing is called
KeyCommit ==
    /\ KeyGuard
    /\ IF allResolved
       THEN handleCommit("keyCommit")
       ELSE /\ lastOp' = Op("keyCommit", "", 0, <<>>)
            /\ UNCHANGED <<resolutions, activeFile, activeHunkIdx, commitMessage,
                           commitResult, calls, targetTip, tipAtCompare, moves>>
            /\ UnchangedSession

\* a call that has returned: its locals are gone, its result is kept
Returned(result) ==
    [pc |-> "returned", tip |-> NoCommit, made |-> {}, result |-> result]

\* a plausible slip: result.error is not looked at
CommitResultIgnoresError(result) ==
    [type |-> "success", message |-> "Conflicts resolved!"]

\* what the resumed transition stores for the result of the call
CommitResultOf(result) ==
    IF result = "error"
    THEN [type |-> "error", message |-> "error"]
    ELSE [type |-> "success", message |-> "Conflicts resolved!"]

\* a plausible slip: a failed commit starts the resolutions over
CommitReturnResets(k) ==
    /\ calls[k].pc = "done"
    /\ commitResult' = CommitResultOf(calls[k].result)
    /\ calls' = [calls EXCEPT ![k] = Returned(calls[k].result)]
    /\ lastOp' = Op("commitReturn", "", k, <<>>)
    /\ resolutions' = IF calls[k].result = "error"
                      THEN InitResolutions(data.files) ELSE resolutions
    /\ UNCHANGED <<activeFile, activeHunkIdx, commitMessage,
                   targetTip, tipAtCompare, moves>>
    /\ UnchangedSession

\* await commitMergeConflictResolution(...) resumes with the result of call k
CommitReturn(k) ==
    /\ calls[k].pc = "done"
    /\ commitResult' = CommitResultOf(calls[k].result)
    /\ calls' = [calls EXCEPT ![k] = Returned(calls[k].result)]
    /\ lastOp' = Op("commitReturn", "", k, <<>>)
    /\ UNCHANGED <<resolutions, activeFile, activeHunkIdx, commitMessage,
                   targetTip, tipAtCompare, moves>>
    /\ UnchangedSession

(***************************************************************************)
(* Merge Commit Synthesizer (design 4.5, 6), run by call k on the server:  *)
(* read the target branch tip, create the blobs, the tree and the commit   *)
(* with parents [target tip, source tip], then update the ref expecting    *)
(* the tip it read.  The call is given branch names, files and a message:  *)
(* the tip it builds on is the one it reads itself.                        *)
(***************************************************************************)
MergeCommit(k) == <<"merge", k>>

\* a call that ended in an error; the objects it made are unreferenced garbage
Failed == [pc |-> "done", tip |-> NoCommit, made |-> {}, result |-> "error"]

SynthStep(k, from, to, tip, made) ==
    /\ calls[k].pc = from
    /\ calls' = [calls EXCEPT ![k] =
                    [pc |-> to, tip |-> tip, made |-> made, result |-> @.result]]
    /\ UNCHANGED <<lastOp, resolutions, activeFile, activeHunkIdx, commitMessage,
                   commitResult, targetTip, tipAtCompare, moves>>
    /\ UnchangedSession

SynthReadTip(k) == SynthStep(k, "called", "blob", targetTip, {})

SynthCreateBlobs(k) ==
    SynthStep(k, "blob", "tree", calls[k].tip, calls[k].made \cup {"blob"})

SynthCreateTree(k) ==
    SynthStep(k, "tree", "commit", calls[k].tip, calls[k].made \cup {"tree"})

SynthCreateCommit(k) ==
    SynthStep(k, "commit", "ref", calls[k].tip, calls[k].made \cup {"commit"})

\* updateRef(branch, expectedOldCommitId, newCommitId) -> success | conflict
SynthUpdateRef(k) ==
    /\ calls[k].pc = "ref"
    /\ IF targetTip = calls[k].tip
       THEN /\ targetTip' = MergeCommit(k)
            /\ calls' = [calls EXCEPT ![k].pc = "done", ![k].result = "ok"]
       ELSE /\ targetTip' = targetTip
            /\ calls' = [calls EXCEPT ![k] = Failed]
    /\ UNCHANGED <<lastOp, resolutions, activeFile, activeHunkIdx, commitMessage,
                   commitResult, tipAtCompare, moves>>
    /\ UnchangedSession

\* a remote call of the sequence fails: the call ends with an error
SynthStepFails(k) ==
    /\ calls[k].pc \in {"called", "blob", "tree", "commit", "ref"}
    /\ calls' = [calls EXCEPT ![k] = Failed]
    /\ UNCHANGED <<lastOp, resolutions, activeFile, activeHunkIdx, commitMessage,
                   commitResult, targetTip, tipAtCompare, moves>>
    /\ UnchangedSession

\* someone else pushes to the target branch
BranchMoves ==
    /\ moves < MaxMoves
    /\ moves' = moves + 1
    /\ targetTip' = <<"ext", moves + 1>>
    /\ UNCHANGED <<lastOp, resolutions, activeFile, activeHunkIdx, commitMessage,
                   commitResult, calls, tipAtCompare>>
    /\ UnchangedSession

(***************************************************************************)
(* GET /api/merge-conflicts step by step.  compareCommits answers; the     *)
(* per-file functions are all started in one pass of diffFiles.map, each   *)
(* issuing its three content reads at once; the reads complete in any      *)
(* order; Promise.all resolves when every file is done and the response is *)
(* sent.                                                                   *)
(***************************************************************************)
AllFetches(diffFiles) == {<<i, pos>> : i \in 1..Len(diffFiles), pos \in Positions}

UnchangedResolver ==
    UNCHANGED <<loading, error, data, resolutions, activeFile, activeHunkIdx,
                commitMessage, commitResult, calls, targetTip, tipAtCompare,
                moves, fetches, engine, pin, pinCalls, lastOp>>

\* the state of the component that neither a load nor GET touches
UnchangedResolverState ==
    UNCHANGED <<resolutions, activeFile, activeHunkIdx, commitMessage,
                commitResult, calls, targetTip, tipAtCompare, moves, lastOp>>

GetCompare(r) ==
    /\ get.pc = "idle"
    /\ remote' = r
    /\ IF ~r.compare.ok
       THEN get' = [get EXCEPT !.pc = "responded",
                               !.response = CatchResponse(r.compare)]
       ELSE LET diffFiles == DiffFiles(r.compare.files)
            IN  IF Len(diffFiles) = 0
                THEN get' = [get EXCEPT !.pc = "responded",
                                        !.response = SessionResponse(<<>>)]
                ELSE get' = [get EXCEPT !.pc = "fetching",
                                        !.pending = AllFetches(diffFiles)]
    /\ UnchangedResolver

\* a plausible slip: the array holds the reports in order of completion
PromiseAllInCompletionOrder(r, finished) ==
    [n \in 1..Len(finished) |-> ClassifyFile(FetchedFile(r, finished[n]))]

\* the array Promise.all resolves to: the report of diffFiles[i] at index i
PromiseAll(r, finished) ==
    [i \in 1..Len(DiffFiles(r.compare.files)) |-> ClassifyFile(FetchedFile(r, i))]

\* the read of file i at pos completes; with the last of its three reads file
\* i is classified and done
FetchCompletes(i, pos) ==
    /\ get.pc = "fetching"
    /\ <<i, pos>> \in get.pending
    /\ LET pending == get.pending \ {<<i, pos>>}
           fileDone == \A q \in Positions : <<i, q>> \notin pending
       IN  get' = [get EXCEPT !.pending = pending,
                              !.finished = IF fileDone THEN Append(@, i) ELSE @]
    /\ UNCHANGED remote
    /\ UnchangedResolver

GetRespond ==
    /\ get.pc = "fetching"
    /\ get.pending = {}
    /\ get' = [get EXCEPT !.pc = "responded",
                          !.response = SessionResponse(PromiseAll(remote, get.finished))]
    /\ UNCHANGED remote
    /\ UnchangedResolver

\* every read outstanding completes, file by file, and the response is sent
GetSettle ==
    /\ get.pc = "fetching"
    /\ LET n == Len(DiffFiles(remote.compare.files))
           finished == [i \in 1..n |-> i]
       IN  get' = [get EXCEPT !.pc = "responded",
                              !.pending = {},
                              !.finished = finished,
                              !.response = SessionResponse(PromiseAll(remote, finished))]
    /\ UNCHANGED remote
    /\ UnchangedResolver

(***************************************************************************)
(* Spec: the resolver from mount on, every session of Comparisons, every   *)
(* reviewer operation, commit calls started and left pending.              *)
(***************************************************************************)
HunkIdxs == 1..3

FilePaths == {"f1", "f2"}

Next == \/ \E c \in Comparisons : FetchDataOk(c)
        \/ FetchDataError
        \/ \E i \in HunkIdxs : ClickAcceptBase(i)
        \/ \E i \in HunkIdxs : ClickAcceptHead(i)
        \/ \E i \in HunkIdxs : ClickAcceptBoth(i)
        \/ \E i \in HunkIdxs, t \in EditTexts : ApplyCustom(i, t)
        \/ \E key \in {"1", "2", "3"} : KeyAccept(key)
        \/ ClickAcceptAllBase
        \/ ClickAcceptAllHead
        \/ \E p \in FilePaths : SelectFile(p)
        \/ KeyNextHunk
        \/ KeyPrevHunk
        \/ KeyNextFile
        \/ KeyPrevFile
        \/ \E m \in Messages \cup {DefaultMessage} : SetCommitMessage(m)
        \/ ClickCommit
        \/ KeyCommit

Spec == Init /\ [][Next]_vars

(***************************************************************************)
(* SpecCommit: the commit calls run to their end on the server while the   *)
(* target branch may be pushed to, on the sessions of CommitComparisons.   *)
(***************************************************************************)
CommitComparisons == { <<OneConflict("f1")>>, <<HeadOnly("f1"), SameChange("f2")>> }

NextCommit ==
        \/ \E c \in CommitComparisons : FetchDataOk(c)
        \/ \E i \in HunkIdxs : ClickAcceptBase(i)
        \/ \E i \in HunkIdxs, t \in EditTexts : ApplyCustom(i, t)
        \/ ClickAcceptAllHead
        \/ \E m \in Messages \cup {DefaultMessage} : SetCommitMessage(m)
        \/ ClickCommit
        \/ KeyCommit
        \/ \E k \in 1..MaxAttempts : CommitReturn(k)
        \/ \E k \in 1..MaxAttempts : SynthReadTip(k)
        \/ \E k \in 1..MaxAttempts : SynthCreateBlobs(k)
        \/ \E k \in 1..MaxAttempts : SynthCreateTree(k)
        \/ \E k \in 1..MaxAttempts : SynthCreateCommit(k)
        \/ \E k \in 1..MaxAttempts : SynthUpdateRef(k)
        \/ \E k \in 1..MaxAttempts : SynthStepFails(k)
        \/ BranchMoves

SpecCommit == Init /\ [][NextCommit]_vars

(***************************************************************************)
(* SpecGet: GET on every answer of GetRemotes, the reads settled in one    *)
(* step.  SpecFetch: GET on the answers of FetchRemotes, the reads         *)
(* completing one by one in every order.                                   *)
(***************************************************************************)
CompareErrors ==
    { CompareError(TRUE, 404, "Not Found"),
      CompareError(TRUE, 403, "Forbidden"),
      CompareError(TRUE, 500, "Server Error"),
      CompareError(TRUE, 422, ""),
      CompareError(FALSE, 0, "fetch failed") }

\* base and head make the same change to one line and different ones to another
MixedChange(name) ==
    ChangedFile(name, Lines3("p", "m", "q"), Lines3("X", "m", "Z"), Lines3("X", "m", "W"))

\* n changed files, each present on head only
ManyFiles(n) ==
    [i \in 1..n |-> ChangedFile("g" \o ToString(i), NullContent, NullContent,
                                Text(<<"a">>))]

FileCounts == {MAX_FILES - 1, MAX_FILES, MAX_FILES + 1, MAX_FILES + 2}

GetRemotes ==
    { Remote(e, {}) : e \in CompareErrors }
    \cup { Remote(CompareOk(c), u) :
             c \in SingleFileComparisons, u \in SUBSET ({1} \X Positions) }
    \cup { Remote(CompareOk(c), {}) :
             c \in { <<>>, <<MixedChange("f1")>>, <<SameChange("f1")>>,
                     <<TwoConflicts("f1"), HeadOnly("f2")>> } }
    \cup { Remote(CompareOk(ManyFiles(n)), {}) : n \in FileCounts }

NextGet == \/ \E r \in GetRemotes : GetCompare(r)
           \/ GetSettle

SpecGet == Init /\ [][NextGet]_vars

FetchRemotes ==
    { Remote(CompareError(TRUE, 404, "Not Found"), {}),
      Remote(CompareOk(<<>>), {}),
      Remote(CompareOk(<<OneConflict("f1")>>), {<<1, "ancestor">>}),
      Remote(CompareOk(<<HeadOnly("f1"), SameChange("f2")>>), {}),
      Remote(CompareOk(<<HeadOnly("f1"), SameChange("f2")>>),
             {<<1, "head">>, <<2, "base">>}),
      Remote(CompareOk(<<OneConflict("f1"), TwoConflicts("f2"), HeadOnly("f3")>>), {}),
      Remote(CompareOk(<<OneConflict("f1"), TwoConflicts("f2"), HeadOnly("f3")>>),
             {<<2, "ancestor">>, <<2, "base">>, <<2, "head">>, <<3, "head">>}) }

FetchFileIdxs == 1..3

NextFetch == \/ \E r \in FetchRemotes : GetCompare(r)
             \/ \E i \in FetchFileIdxs, pos \in Positions : FetchCompletes(i, pos)
             \/ GetRespond

SpecFetch == Init /\ [][NextFetch]_vars

(***************************************************************************)
(* SpecDiff: the Line Differencer called on every pair of line sequences   *)
(* of at most MaxLen lines over DiffLines.                                 *)
(***************************************************************************)
MaxLen == 3

DiffLines == {"x", "y"}

RECURSIVE SeqsUpTo(_, _)
SeqsUpTo(S, n) ==
    IF n = 0 THEN {<<>>}
    ELSE LET shorter == SeqsUpTo(S, n - 1)
         IN  shorter \cup {Append(s, x) : s \in shorter, x \in S}

LineSequences == SeqsUpTo(DiffLines, MaxLen)

Diff(a, b) ==
    /\ engine' = [called |-> TRUE, a |-> a, b |-> b, script |-> diff(a, b)]
    /\ UNCHANGED <<pin, pinCalls>>
    /\ UNCHANGED <<loading, error, data, remote, get, fetches>>
    /\ UnchangedResolverState

NextDiff == \E a \in LineSequences, b \in LineSequences : Diff(a, b)

SpecDiff == Init /\ [][NextDiff]_vars

(***************************************************************************)
(* SpecRefetch: the props of the comparison change while the component is  *)
(* mounted, so the fetchData effect runs again; the responses arrive in    *)
(* any order while the reviewer resolves hunks.                            *)
(***************************************************************************)
MaxFetches == 2

\* the comparison run k of the effect asks for
Requested(k) ==
    IF k % 2 = 1 THEN <<OneConflict("f1")>> ELSE <<TwoConflicts("f1"), HeadOnly("f2")>>

\* owner, repo, baseBranch or headBranch changes: the effect runs again and
\* calls fetchData; nothing is reset and the earlier run is not cancelled
PropsChange ==
    /\ fetches.latest < MaxFetches
    /\ fetches' = [fetches EXCEPT !.latest = @ + 1, !.inflight = @ \cup {fetches.latest + 1}]
    /\ UNCHANGED <<loading, error, data, remote, get>>
    /\ UnchangedElsewhere
    /\ UnchangedResolverState

NextRefetch ==
        \/ PropsChange
        \/ \E k \in 1..MaxFetches : FetchDataArrives(k, Requested(k))
        \/ \E k \in 1..MaxFetches : FetchDataFails(k)
        \/ \E i \in HunkIdxs : ClickAcceptBase(i)
        \/ \E i \in HunkIdxs : ClickAcceptHead(i)
        \/ \E i \in HunkIdxs : ClickAcceptBoth(i)
        \/ \E i \in HunkIdxs, t \in EditTexts : ApplyCustom(i, t)
        \/ \E p \in FilePaths : SelectFile(p)

SpecRefetch == Init /\ [][NextRefetch]_vars

(***************************************************************************)
(* System pins (system-pins-store.ts): the RepoSystemPin row of one key    *)
(* (owner, repo, kind, resourceKey) and the calls conflict evaluations     *)
(* make on it.  evaluatePRConflict runs up to 10 at a time with no key, so *)
(* evaluations of one pull request (webhook and polling) overlap.  A call  *)
(* reads the row (await getSystemPin) and writes it in a later step.       *)
(***************************************************************************)
PinOps == {"activate", "clear"}

\* activateSystemPin after its read: what happens to the row of status row
\* when the call read existing.  The row is looked up by a unique key, so
\* create rejects when a row is there.
activateSystemPin(existing, row) ==
    IF existing = "active" THEN [pin |-> row, transitioned |-> "false"]
    ELSE IF existing = "cleared" THEN [pin |-> "active", transitioned |-> "true"]
    ELSE IF row = "none" THEN [pin |-> "active", transitioned |-> "true"]
    ELSE [pin |-> row, transitioned |-> "threw"]

\* clearSystemPin after its read
clearSystemPin(existing, row) ==
    IF existing \in {"none", "cleared"} THEN [pin |-> row, transitioned |-> "false"]
    ELSE [pin |-> "cleared", transitioned |-> "true"]

UnchangedByPins ==
    /\ UNCHANGED <<loading, error, data, remote, get, fetches, engine>>
    /\ UnchangedResolverState

\* step.run("activate-conflict-pin") or step.run("clear-conflict-pin") of an
\* evaluation, first run or retry, calls the store
PinCallStart(k, op) ==
    /\ pinCalls[k].pc \in {"idle", "returned"}
    /\ pinCalls' = [pinCalls EXCEPT ![k] =
                       [op |-> op, pc |-> "started", existing |-> "none",
                        transitioned |-> "none"]]
    /\ UNCHANGED pin
    /\ UnchangedByPins

\* const existing = await getSystemPin(...)
PinCallRead(k) ==
    /\ pinCalls[k].pc = "started"
    /\ pinCalls' = [pinCalls EXCEPT ![k].pc = "read", ![k].existing = pin]
    /\ UNCHANGED pin
    /\ UnchangedByPins

\* the branch taken on existing: update or create, and the return
PinCallFinish(k) ==
    /\ pinCalls[k].pc = "read"
    /\ LET out == IF pinCalls[k].op = "activate"
                  THEN activateSystemPin(pinCalls[k].existing, pin)
                  ELSE clearSystemPin(pinCalls[k].existing, pin)
       IN  /\ pin' = out.pin
           /\ pinCalls' = [pinCalls EXCEPT ![k].pc = "returned",
                                           ![k].transitioned = out.transitioned]
    /\ UnchangedByPins

NextPins == \/ \E k \in 1..MaxPinCalls, op \in PinOps : PinCallStart(k, op)
            \/ \E k \in 1..MaxPinCalls : PinCallRead(k)
            \/ \E k \in 1..MaxPinCalls : PinCallFinish(k)

SpecPins == Init /\ [][NextPins]_vars

(***************************************************************************)
(* Properties.                                                             *)
(***************************************************************************)
HunkRes(p, i) == resolutions[p].hunkResolutions[i]

NoPendingHunk(p) ==
    \A i \in DOMAIN resolutions[p].hunkResolutions : HunkRes(p, i).status # "pending"

SomeFilePending == \E p \in DOMAIN resolutions : resolutions[p].status = "pending"

BulkOps == {"acceptAllBase", "acceptAllHead"}

CommitOps == {"clickCommit", "keyCommit"}

\* C1: acceptAllBase and acceptAllHead leave every hunk resolution that is not
\* pending at the time of the call as it is, status and resolvedLines.
C1_BulkKeepsResolvedHunks ==
    [][lastOp'.op \in BulkOps =>
        \A p \in DOMAIN resolutions :
            \A i \in DOMAIN resolutions[p].hunkResolutions :
                HunkRes(p, i).status # "pending" =>
                    /\ p \in DOMAIN resolutions'
                    /\ resolutions'[p].hunkResolutions[i] = HunkRes(p, i)]_vars

\* C2: a commit invoked while some file is pending issues no call, writes
\* nothing to the remote and leaves the resolution state as it is.
C2_PendingCommitRejected ==
    [][(lastOp'.op \in CommitOps /\ SomeFilePending) =>
        /\ calls' = calls
        /\ targetTip' = targetTip
        /\ resolutions' = resolutions
        /\ commitResult' = commitResult]_vars

C2_Witness ==
    /\ lastOp.op = "keyCommit"
    /\ SomeFilePending
    /\ \E p \in DOMAIN resolutions : resolutions[p].status = "resolved"
    /\ \A k \in DOMAIN calls : calls[k].pc = "none"

\* C3: the target branch ref is advanced to a merge commit only while the
\* branch still points at the tip that was read when the session was fetched.
C3_RefAdvancesOnlyFromComparedTip ==
    [][\A k \in DOMAIN calls :
        (targetTip' = MergeCommit(k) /\ targetTip # MergeCommit(k)) =>
            targetTip = tipAtCompare]_vars

AllMade == {"blob", "tree", "commit"}

\* C4: the ref is advanced to the merge commit of a call only by the ref
\* update of that call, after its blobs, tree and commit were created; a call
\* that ends in an error leaves the ref where it was and is reported as an error.
C4_RefAfterEveryStep ==
    [][\A k \in DOMAIN calls :
        /\ (targetTip' = MergeCommit(k) /\ targetTip # MergeCommit(k)) =>
              /\ calls[k].pc = "ref"
              /\ calls[k].made = AllMade
              /\ calls'[k].result = "ok"
        /\ (calls[k].result = "none" /\ calls'[k].result = "error") =>
              targetTip' = targetTip
        /\ (calls[k].pc = "done" /\ calls'[k].pc = "returned"
                                 /\ calls[k].result = "error") =>
              commitResult'.type = "error"]_vars

C4_Witness ==
    /\ lastOp.op = "commitReturn"
    /\ commitResult.type = "error"
    /\ calls[lastOp.idx].result = "error"
    /\ targetTip = tipAtCompare
    /\ \E k \in DOMAIN calls : calls[k].pc = "ref" /\ calls[k].made = AllMade

\* C5 as stated: a file's status is resolved exactly when none of its hunk
\* resolutions is pending.
C5_ResolvedIffNoPending ==
    \A p \in DOMAIN resolutions :
        resolutions[p].status = "resolved" <=> NoPendingHunk(p)

\* C5 as amended: a file's status is resolved or auto-resolved exactly when
\* none of its hunk resolutions is pending.
C5_StatusMatchesHunks ==
    \A p \in DOMAIN resolutions :
        resolutions[p].status \in {"resolved", "auto-resolved"} <=> NoPendingHunk(p)

C5_Witness ==
    /\ \E p \in DOMAIN resolutions :
          resolutions[p].status = "resolved" /\ NoPendingHunk(p)
    /\ \E p \in DOMAIN resolutions :
          /\ resolutions[p].status = "pending"
          /\ \E i, j \in DOMAIN resolutions[p].hunkResolutions :
                HunkRes(p, i).status = "pending" /\ HunkRes(p, j).status = "custom"

\* C6: within a session a hunk resolution that is not pending never becomes
\* pending again, and the edit box that moves a hunk to custom stays available
\* for every conflict hunk of the file on view, resolved or not.
C6_NeverBackToPending ==
    /\ [][data' = data =>
            \A p \in DOMAIN resolutions :
                \A i \in DOMAIN resolutions[p].hunkResolutions :
                    HunkRes(p, i).status # "pending" =>
                        /\ p \in DOMAIN resolutions'
                        /\ resolutions'[p].hunkResolutions[i].status # "pending"]_vars
    /\ [](\A i \in HunkIdxs :
            (BlockShown(i) /\ HunkRes(activeFile, i).status # "pending") =>
                \A t \in EditTexts : ENABLED ApplyCustom(i, t))

C6_Witness ==
    /\ lastOp.op = "setCustom"
    /\ \E p \in DOMAIN resolutions :
          \E i, j \in DOMAIN resolutions[p].hunkResolutions :
              /\ i # j
              /\ HunkRes(p, i).status = "custom"
              /\ HunkRes(p, j).status = "accepted-head"

\* C7: a session with at least one file, each file resolved or auto-resolved,
\* and a commit message that is not blank, is accepted by handleCommit.
C7_CommitAcceptedWhenNothingPending ==
    ( /\ ~data.isNull
      /\ Len(data.files) > 0
      /\ \A p \in DOMAIN resolutions :
            resolutions[p].status \in {"resolved", "auto-resolved"}
      /\ Trim(commitMessage) # <<>> )
    => HandleCommitAccepts

\* C8: the step in which a commit call returns an error leaves the session,
\* the resolutions and the commit message as they were, and handleCommit
\* still accepts; no step of a commit call changes the resolutions.
C8_FailedCommitKeepsState ==
    [][/\ (\E k \in DOMAIN calls :
              /\ calls[k].pc = "done" /\ calls[k].result = "error"
              /\ calls'[k].pc = "returned") =>
           /\ data' = data
           /\ resolutions' = resolutions
           /\ commitMessage' = commitMessage
           /\ HandleCommitAccepts'
       /\ calls' # calls => (data' = data /\ resolutions' = resolutions)]_vars

C8_Witness ==
    /\ lastOp.op = "commitReturn"
    /\ commitResult.type = "error"
    /\ ~isPending
    /\ HandleCommitAccepts
    /\ \E p \in DOMAIN resolutions :
          \E i \in DOMAIN resolutions[p].hunkResolutions :
              HunkRes(p, i).status = "custom"

\* C9: after acceptBase, acceptHead, acceptBoth or setCustom on hunk i the
\* resolution of hunk i is accepted-base with the hunk's baseLines,
\* accepted-head with its headLines, accepted-both with baseLines followed by
\* headLines, or custom with the lines supplied.
C9_OperationSetsResolution ==
    lastOp.op \in {"acceptBase", "acceptHead", "acceptBoth", "setCustom"} =>
        LET h == FindFile(data.files, lastOp.path).hunks[lastOp.idx]
            r == HunkRes(lastOp.path, lastOp.idx)
        IN  CASE lastOp.op = "acceptBase" ->
                    r = [status |-> "accepted-base", resolvedLines |-> h.baseLines]
              [] lastOp.op = "acceptHead" ->
                    r = [status |-> "accepted-head", resolvedLines |-> h.headLines]
              [] lastOp.op = "acceptBoth" ->
                    r = [status |-> "accepted-both",
                         resolvedLines |-> h.baseLines \o h.headLines]
              [] lastOp.op = "setCustom" ->
                    r = [status |-> "custom", resolvedLines |-> lastOp.lines]

C9_Witness ==
    /\ lastOp.op = "acceptBoth"
    /\ LET h == FindFile(data.files, lastOp.path).hunks[lastOp.idx]
       IN  h.baseLines = <<<<"X">>>> /\ h.headLines = <<<<"Y">>>>
    /\ HunkRes(lastOp.path, lastOp.idx).resolvedLines = <<<<"X">>, <<"Y">>>>

\* C10: in every report of the session autoResolved is the negation of
\* hasConflicts, autoResolved holds exactly when every hunk is Clean and
\* hasConflicts exactly when some hunk is a Conflict.
C10_ReportFlagsAgree ==
    \A n \in 1..Len(data.files) :
        LET f == data.files[n]
        IN  /\ f.autoResolved <=> ~f.hasConflicts
            /\ f.autoResolved <=> \A i \in 1..Len(f.hunks) : f.hunks[i].type = "clean"
            /\ f.hasConflicts <=> \E i \in 1..Len(f.hunks) : f.hunks[i].type = "conflict"

C10_Witness ==
    /\ Len(data.files) = 2
    /\ data.files[1].hasConflicts /\ ~data.files[1].autoResolved
    /\ data.files[2].autoResolved /\ ~data.files[2].hasConflicts
    /\ Len(data.files[1].hunks) = 3

\* the remote of r in which the file is absent wherever the read of it fails
AsAbsent(r) ==
    LET files == r.compare.files
        At(i, pos) == IF <<i, pos>> \in r.unreadable THEN NullContent ELSE files[i][pos]
    IN  Remote(CompareOk([i \in 1..Len(files) |->
                    ChangedFile(files[i].filename, At(i, "ancestor"),
                                At(i, "base"), At(i, "head"))]),
               {})

Responded == get.pc = "responded"

\* C11: when the comparison succeeds, whatever content reads fail, the request
\* is answered with a session that holds one report per file of diffFiles, under
\* the file's path, and the session is the one answered when the file is absent
\* at every position whose read failed.
C11_UnreadableIsAbsent ==
    (Responded /\ remote.compare.ok) =>
        /\ get.response.ok
        /\ Len(get.response.files) = Len(DiffFiles(remote.compare.files))
        /\ \A i \in 1..Len(get.response.files) :
              get.response.files[i].path = remote.compare.files[i].filename
        /\ get.response = GET(AsAbsent(remote))

C11_Witness ==
    /\ Responded
    /\ remote.unreadable = {1} \X Positions
    /\ \A pos \in Positions : ~remote.compare.files[1][pos].isNull
    /\ remote.compare.files[1].base # remote.compare.files[1].head
    /\ get.response.ok
    /\ Len(get.response.files) = 1
    /\ get.response.files[1].hunks = <<>>

\* C12: when compareCommits fails no content read is issued, no session is
\* answered, and the answer is one error with the message of the failure
\* itself, when it has one, and its status, when it has one.
C12_ComparisonErrorVerbatim ==
    (Responded /\ ~remote.compare.ok) =>
        /\ get.pending = {} /\ get.finished = <<>>
        /\ ~get.response.ok
        /\ get.response.files = <<>>
        /\ remote.compare.message # "" =>
              get.response.error = remote.compare.message
        /\ remote.compare.hasStatus =>
              get.response.status = remote.compare.status

\* C13: the session answered to a comparison of more than MAX_FILES files
\* holds MAX_FILES reports and differs from the session answered to any
\* comparison of at most MAX_FILES files.
C13_TruncationReported ==
    (Responded /\ remote.compare.ok /\ Len(remote.compare.files) > MAX_FILES) =>
        /\ Len(get.response.files) = MAX_FILES
        /\ \A r \in GetRemotes :
              (r.compare.ok /\ Len(r.compare.files) <= MAX_FILES) =>
                  GET(r) # get.response

\* C14: in whatever order the files are done, report i of the session answered
\* is the report of file i of diffFiles.
C14_ReportsInDiffOrder ==
    (Responded /\ remote.compare.ok) =>
        LET diffFiles == DiffFiles(remote.compare.files)
        IN  /\ Len(get.response.files) = Len(diffFiles)
            /\ \A i \in 1..Len(diffFiles) :
                  /\ get.response.files[i].path = diffFiles[i].filename
                  /\ get.response.files[i] = ClassifyFile(FetchedFile(remote, i))

C14_Witness ==
    /\ Responded
    /\ get.finished = <<3, 1, 2>>
    /\ Len(get.response.files) = 3
    /\ get.response.files[1].path = "f1"
    /\ get.response.files[3].path = "f3"
    /\ get.response.files[1] # get.response.files[3]

\* C15: the content reads outstanding are always fewer than the reads a
\* comparison of MAX_FILES files needs, three per file: a limit on the reads
\* outstanding is in force below what the cap on files allows.
C15_OutstandingFetchesLimited ==
    Cardinality(get.pending) < 3 * MAX_FILES

\* the lines of a side as GET takes them: (content ?? "").split("\n")
SideLines(content) == Split(OrEmpty(content))

OneClean(report, lines) ==
    /\ report.hunks = <<Clean(lines)>>
    /\ report.autoResolved
    /\ ~report.hasConflicts

EngineInvoked(f) == ClassifyReturn(f) = "threeWayMerge"

\* C16: of the session answered, the report of a file read on head only is
\* one Clean hunk of head's lines, of a file read on base only one Clean hunk
\* of base's lines, of a file read on neither base nor head no hunk at all;
\* each is autoResolved and is made without threeWayMerge.
C16_AbsentContentReports ==
    (Responded /\ remote.compare.ok) =>
        \A i \in 1..Len(get.response.files) :
            LET f == FetchedFile(remote, i)
                report == get.response.files[i]
            IN  /\ (f.ancestor.isNull /\ f.base.isNull /\ ~f.head.isNull) =>
                      OneClean(report, Split(f.head.text)) /\ ~EngineInvoked(f)
                /\ (f.ancestor.isNull /\ f.head.isNull /\ ~f.base.isNull) =>
                      OneClean(report, Split(f.base.text)) /\ ~EngineInvoked(f)
                /\ (f.base.isNull /\ f.head.isNull) =>
                      /\ report.hunks = <<>>
                      /\ report.autoResolved /\ ~report.hasConflicts
                      /\ ~EngineInvoked(f)

C16_Witness ==
    /\ Responded
    /\ remote.unreadable = {<<1, "base">>, <<1, "head">>}
    /\ ~remote.compare.files[1].ancestor.isNull
    /\ remote.compare.files[1].base # remote.compare.files[1].head
    /\ get.response.files = <<Report("f1", <<>>, FALSE, TRUE)>>

\* C17 as stated: a report is one Clean hunk of the changed side's lines when
\* exactly one of base and head differs from the ancestor content, one Clean
\* hunk of the ancestor's lines when neither differs, and threeWayMerge runs
\* only when both differ.
C17_OneSideChangedReports ==
    (Responded /\ remote.compare.ok) =>
        \A i \in 1..Len(get.response.files) :
            LET f == FetchedFile(remote, i)
                report == get.response.files[i]
                baseDiffers == f.base # f.ancestor
                headDiffers == f.head # f.ancestor
            IN  /\ (baseDiffers /\ ~headDiffers) => OneClean(report, SideLines(f.base))
                /\ (headDiffers /\ ~baseDiffers) => OneClean(report, SideLines(f.head))
                /\ (~baseDiffers /\ ~headDiffers) =>
                      OneClean(report, SideLines(f.ancestor))
                /\ EngineInvoked(f) => (baseDiffers /\ headDiffers)

\* C17 as amended: the same, for every file that is read on base or on head.
C17_OneSideChangedWhenPresent ==
    (Responded /\ remote.compare.ok) =>
        \A i \in 1..Len(get.response.files) :
            LET f == FetchedFile(remote, i)
                report == get.response.files[i]
                baseDiffers == f.base # f.ancestor
                headDiffers == f.head # f.ancestor
            IN  /\ ~(f.base.isNull /\ f.head.isNull) =>
                      /\ (baseDiffers /\ ~headDiffers) =>
                            OneClean(report, SideLines(f.base))
                      /\ (headDiffers /\ ~baseDiffers) =>
                            OneClean(report, SideLines(f.head))
                      /\ (~baseDiffers /\ ~headDiffers) =>
                            OneClean(report, SideLines(f.ancestor))
                /\ EngineInvoked(f) => (baseDiffers /\ headDiffers)

C17_Witness ==
    /\ Responded
    /\ remote.unreadable = {}
    /\ Len(remote.compare.files) = 1
    /\ LET f == remote.compare.files[1]
       IN  /\ f.ancestor = Text(<<"a", NL, "b">>)
           /\ f.base = Text(<<"X", NL, "b">>)
           /\ f.head = f.ancestor
    /\ get.response.files = <<Report("f1", <<Clean(<<<<"X">>, <<"b">>>>)>>, FALSE, TRUE)>>

\* C18: a file whose base and head content are the same text, other than the
\* ancestor's, is reported autoResolved with Clean hunks only, whose lines are
\* that text's; and no Conflict hunk of any report has the same lines on both
\* sides.
C18_ConvergentEditsAreClean ==
    (Responded /\ remote.compare.ok) =>
        \A i \in 1..Len(get.response.files) :
            LET f == FetchedFile(remote, i)
                report == get.response.files[i]
                hunks == report.hunks
            IN  /\ (~f.base.isNull /\ f.base = f.head /\ f.base # f.ancestor) =>
                      /\ report.autoResolved /\ ~report.hasConflicts
                      /\ \A k \in 1..Len(hunks) : hunks[k].type = "clean"
                      /\ Flatten([k \in 1..Len(hunks) |-> hunks[k].resolvedLines])
                            = Split(f.base.text)
                /\ \A k \in 1..Len(hunks) :
                      hunks[k].type = "conflict" =>
                          hunks[k].baseLines # hunks[k].headLines

C18_Witness ==
    /\ Responded
    /\ remote.compare.files = <<MixedChange("f1")>>
    /\ EngineInvoked(FetchedFile(remote, 1))
    /\ get.response.files[1].hunks =
          << Clean(<<<<"X">>, <<"m">>>>), Conflict(<<<<"Z">>>>, <<<<"W">>>>) >>

\* number of resolvedLines of the hunk resolutions before the i-th
RECURSIVE LinesBefore(_, _)
LinesBefore(hrs, i) ==
    IF i <= 1 THEN 0 ELSE LinesBefore(hrs, i - 1) + Len(hrs[i - 1].resolvedLines)

\* handleCommit ran last and started a call; lastOp.lines is what it was given
CommitCalled == lastOp.op \in CommitOps /\ HandleCommitAccepts

\* C19: the resolvedFiles of a commit call hold one entry per file of the
\* session, in order, under its path; split on newline its content is line j
\* of hunk resolution i at place LinesBefore(i) + j for every i and j, and
\* nothing more; it is empty when there is no line at all.
C19_CommittedContentIsConcatenation ==
    CommitCalled =>
        /\ Len(lastOp.lines) = Len(data.files)
        /\ \A n \in 1..Len(data.files) :
              LET hrs == resolutions[data.files[n].path].hunkResolutions
                  total == LinesBefore(hrs, Len(hrs) + 1)
                  content == lastOp.lines[n].content
              IN  /\ lastOp.lines[n].path = data.files[n].path
                  /\ Len(hrs) = Len(data.files[n].hunks)
                  /\ total = 0 => content = <<>>
                  /\ total > 0 =>
                        /\ Len(Split(content)) = total
                        /\ \A i \in 1..Len(hrs) :
                              \A j \in 1..Len(hrs[i].resolvedLines) :
                                  Split(content)[LinesBefore(hrs, i) + j]
                                      = hrs[i].resolvedLines[j]

C19_Witness ==
    /\ CommitCalled
    /\ \E n \in 1..Len(lastOp.lines) :
          /\ Len(data.files[n].hunks) = 3
          /\ HunkRes(data.files[n].path, 1).status = "accepted-both"
          /\ HunkRes(data.files[n].path, 3).status = "custom"
          /\ lastOp.lines[n].content = <<"X", NL, "Y", NL, "m", NL, "Q", NL>>

\* the content the report of a file adopts whole, null when it adopts none
Adopted(f) ==
    LET return == ClassifyReturn(f)
    IN  IF return \in {"headOnly", "headChanged"} THEN f.head
        ELSE IF return \in {"baseOnly", "baseChanged"} THEN f.base
        ELSE IF return = "unchanged" THEN f.ancestor
        ELSE NullContent

\* C20: for every file of the session whose report adopts the text read at
\* one position whole, the content a commit call is given for it is that text,
\* character for character.
C20_SplitJoinRoundTrip ==
    CommitCalled =>
        \A n \in 1..Len(data.files) :
            LET f == FetchedFile(remote, n)
            IN  ~Adopted(f).isNull =>
                    /\ Len(data.files[n].hunks) = 1
                    /\ lastOp.lines[n].content = Adopted(f).text

C20_Witness ==
    /\ CommitCalled
    /\ Len(data.files) = 2
    /\ FetchedFile(remote, 2).head = Text(<<"a", NL, NL, "b", NL, NL>>)
    /\ ClassifyReturn(FetchedFile(remote, 2)) = "headChanged"
    /\ lastOp.lines[2].content = <<"a", NL, NL, "b", NL, NL>>

(***************************************************************************)
(* Line Differencer: replay of an edit script.                             *)
(***************************************************************************)
\* the operations of a script that consume a line of a, and those that
\* produce a line of b
OverA(script) == SelectSeq(script, LAMBDA o : o.op \in {"keep", "delete"})

OverB(script) == SelectSeq(script, LAMBDA o : o.op \in {"keep", "insert"})

WellFormedScript(script, a, b) ==
    /\ \A k \in 1..Len(script) : script[k].op \in {"keep", "insert", "delete"}
    /\ \A k \in 1..Len(OverA(script)) : OverA(script)[k].ai \in 1..Len(a)
    /\ \A k \in 1..Len(OverB(script)) : OverB(script)[k].bi \in 1..Len(b)
    /\ \A k \in 1..Len(script) :
           script[k].op = "keep" => a[script[k].ai] = b[script[k].bi]

ReplayA(script, a) == [k \in 1..Len(OverA(script)) |-> a[OverA(script)[k].ai]]

ReplayB(script, b) == [k \in 1..Len(OverB(script)) |-> b[OverB(script)[k].bi]]

\* the positions a replay visits, in the order it visits them
VisitedA(script) == [k \in 1..Len(OverA(script)) |-> OverA(script)[k].ai]

VisitedB(script) == [k \in 1..Len(OverB(script)) |-> OverB(script)[k].bi]

\* C21: for all line sequences a and b, the script diff(a, b) replayed over
\* a's index space (keeps and deletes) visits the lines of a once each in
\* order and so reconstructs a, and replayed over b's index space (keeps and
\* inserts) reconstructs b; a keep pairs equal lines.  Empty a, empty b and
\* a = b are among the inputs.
C21_ReplayReconstructs ==
    engine.called =>
        /\ WellFormedScript(engine.script, engine.a, engine.b)
        /\ VisitedA(engine.script) = [k \in 1..Len(engine.a) |-> k]
        /\ VisitedB(engine.script) = [k \in 1..Len(engine.b) |-> k]
        /\ ReplayA(engine.script, engine.a) = engine.a
        /\ ReplayB(engine.script, engine.b) = engine.b

\* a script with a keep, a delete and an insert
C21_Witness ==
    /\ engine.called
    /\ engine.a = <<"x", "y", "x">>
    /\ engine.b = <<"y", "x", "y">>
    /\ \A o \in {"keep", "insert", "delete"} :
           \E k \in 1..Len(engine.script) : engine.script[k].op = o
    /\ ReplayB(engine.script, engine.b) = <<"y", "x", "y">>

(***************************************************************************)
(* Resolution Tracker: frame of a transition, state at session creation.   *)
(***************************************************************************)
\* the handlers that resolve one hunk
SingleHunkOps == {"acceptBase", "acceptHead", "acceptBoth", "setCustom"}

AtCreation ==
    /\ ~data.isNull
    /\ \A n \in 1..Len(data.files) :
         LET file == data.files[n]
             res  == resolutions[file.path]
         IN  /\ res.status = IF file.autoResolved THEN "auto-resolved" ELSE "pending"
             /\ Len(res.hunkResolutions) = Len(file.hunks)
             /\ \A k \in 1..Len(file.hunks) :
                  res.hunkResolutions[k] =
                      IF file.hunks[k].type = "clean"
                      THEN [status |-> "accepted-base",
                            resolvedLines |-> file.hunks[k].resolvedLines]
                      ELSE [status |-> "pending", resolvedLines |-> <<>>]

Capped(n) == IF n < MAX_FILES THEN n ELSE MAX_FILES

\* C24: the session GET answers with never holds more than MAX_FILES files:
\* its files are the first MAX_FILES entries of the comparison's list of
\* changed files (all of them if there are fewer), in the list's order, and
\* while reads are outstanding none is for a file beyond the cap.
C24_FileCap ==
    /\ get.pc = "fetching" =>
          \A f \in get.pending :
              f[1] \in 1..Capped(Len(remote.compare.files))
    /\ (Responded /\ get.response.ok) =>
          /\ Len(get.response.files) <= MAX_FILES
          /\ Len(get.response.files) = Capped(Len(remote.compare.files))
          /\ \A i \in 1..Len(get.response.files) :
                 get.response.files[i].path = remote.compare.files[i].filename

\* a comparison of two files more than the cap, answered
C24_Witness ==
    /\ Responded
    /\ get.response.ok
    /\ Len(remote.compare.files) = MAX_FILES + 2
    /\ Len(get.response.files) = MAX_FILES
    /\ get.response.files[MAX_FILES].path = remote.compare.files[MAX_FILES].filename
    /\ get.pending = {}

(***************************************************************************)
(* Session: responses of overlapping loads.                                *)
(***************************************************************************)
\* every run of the effect has had its response and a session is shown
LoadsSettled == fetches.inflight = {} /\ error = "" /\ fetches.shown # 0

\* C25: when a load is started while an earlier one awaits its response, the
\* session and resolutions held once both have answered are those of the load
\* started last, and no step replaces the session of a later load, with the
\* resolutions made on it, by the response to an earlier one.
C25_LatestLoadWins ==
    /\ [](LoadsSettled => fetches.shown = fetches.latest)
    /\ [][fetches'.shown >= fetches.shown]_vars

(***************************************************************************)
(* Commit bar: what guards the start of a commit.                          *)
(***************************************************************************)
\* the commitMergeConflictResolution calls started and not yet returned
InFlight == {k \in DOMAIN calls : calls[k].pc \notin {"none", "returned"}}

\* a step in which handleCommit starts a commitMergeConflictResolution call
CallStarts == \E k \in DOMAIN calls : calls[k].pc = "none" /\ calls'[k].pc = "called"

\* C26: at most one commit attempt is in flight at any time: while a call
\* started from the session has not returned, neither the commit button nor
\* Ctrl/Cmd+Enter starts a second commitMergeConflictResolution call.
C26_OneCommitInFlight == Cardinality(InFlight) <= 1

\* C27: no commitMergeConflictResolution call is started, by the commit button
\* or by Ctrl/Cmd+Enter, while the commit message is empty or whitespace only.
C27_NoCommitWithoutMessage ==
    [][CallStarts => Trim(commitMessage) # <<>>]_vars

DescribesHunk(hr, h) ==
    IF h.type = "clean"
    THEN hr.status = "accepted-base"
    ELSE CASE hr.status = "pending"       -> hr.resolvedLines = <<>>
           [] hr.status = "accepted-base" -> hr.resolvedLines = HunkLines(h, "baseLines")
           [] hr.status = "accepted-head" -> hr.resolvedLines = HunkLines(h, "headLines")
           [] hr.status = "accepted-both" ->
                  hr.resolvedLines = HunkLines(h, "baseLines") \o HunkLines(h, "headLines")
           [] hr.status = "custom"        -> TRUE
           [] OTHER                       -> FALSE

\* C29: in every state after the session is loaded the resolution mapping has
\* one entry for each file of the session and no other, the entry has as many
\* hunk resolutions as the file has hunks, the one at position i describing
\* hunk i; the resolvedFiles a commit call is given has one entry per file of
\* the session, in the session's order.
C29_MappingMatchesSession ==
    ~data.isNull =>
        /\ DOMAIN resolutions = Paths(data.files)
        /\ Cardinality(Paths(data.files)) = Len(data.files)
        /\ \A n \in 1..Len(data.files) :
               LET file == data.files[n]
                   hrs  == resolutions[file.path].hunkResolutions
               IN  /\ Len(hrs) = Len(file.hunks)
                   /\ \A i \in 1..Len(file.hunks) : DescribesHunk(hrs[i], file.hunks[i])
        /\ CommitCalled =>
               /\ Len(lastOp.lines) = Len(data.files)
               /\ \A n \in 1..Len(data.files) : lastOp.lines[n].path = data.files[n].path

\* a commit of a session of two files, one with two conflicts resolved
C29_Witness ==
    /\ CommitCalled
    /\ Len(data.files) = 2
    /\ Len(data.files[1].hunks) = 3
    /\ Len(resolutions[data.files[1].path].hunkResolutions) = 3
    /\ HunkRes(data.files[1].path, 3).status = "accepted-both"
    /\ Len(lastOp.lines) = 2
    /\ lastOp.lines[1].path = data.files[1].path
    /\ lastOp.lines[2].path = data.files[2].path

(***************************************************************************)
(* System pins: what a call reports.                                       *)
(***************************************************************************)
\* call k returns in this step
PinCallReturns(k) == pinCalls[k].pc = "read" /\ pinCalls'[k].pc = "returned"

\* C30: a call of activateSystemPin or clearSystemPin that returns reports
\* transitioned = true exactly when it changed the pin's state (none or
\* cleared to active for activate, active to cleared for clear), also when
\* calls for the same key interleave, so that every change of state is
\* reported by the one call that made it.
C30_TransitionReportedOnce ==
    [][\A k \in 1..MaxPinCalls :
          (PinCallReturns(k) /\ pinCalls'[k].transitioned # "threw") =>
              ((pinCalls'[k].transitioned = "true") <=> (pin' # pin))]_vars
====
